---- MODULE Spec2Model ----
(***************************************************************************)
(* simple_todo: a command-line task tracker.                               *)
(*                                                                         *)
(*   model.rs        Task, TodoList (add, mark_done, set_priority, the     *)
(*                   print_* listings), Priority                           *)
(*   cli.rs          Command, TodoError, parse_command, execute_command    *)
(*   persistence.rs  load_todo_list, save_todo_list                        *)
(*   main.rs         main: parse, load, run one command, save              *)
(*                                                                         *)
(* Strings that the code inspects character by character (argument tokens, *)
(* task texts, the serialized document) are sequences of one-character     *)
(* strings.  A u32 is held as its two 16-bit halves [hi, lo], value       *)
(* hi * 2^16 + lo, because the model checker's integers stop at 2^31 - 1.  *)
(*                                                                         *)
(* Six specifications share the variables:                                 *)
(*   Spec         one in-memory TodoList, built by TodoList::default and   *)
(*                driven through the TodoList methods                      *)
(*   SpecCli      one in-memory TodoList driven through parse_command and  *)
(*                execute_command, as the unit tests of cli.rs do          *)
(*   SpecPersist  save_todo_list / load_todo_list on a path                *)
(*   SpecMain     successive process invocations of main                   *)
(*   SpecAdd      TodoList::add on lists with next_id across the u32 range *)
(*   SpecPriority Priority::from_str on priority tokens                    *)
(***************************************************************************)
EXTENDS Naturals, Integers, Sequences, FiniteSets, TLC

VARIABLES
    task_list,   \* the in-memory TodoList: [tasks, next_id]
    last,        \* the last call made and what it returned
    out,         \* what the last call wrote to standard output
    adds,        \* number of TodoList::add calls made on task_list
    file,        \* what is stored at the path
    saved,       \* the value the last load_todo_list returned
    pc,          \* main: position of the running process
    args,        \* main: the argument vector of the running process
    cmd,         \* main: the parsed Command
    exit,        \* main: how the last process ended
    issued,      \* ids that add has returned, over all invocations
    save_failed, \* whether a save_todo_list of some invocation has failed
    last_set,    \* Spec: the priority the last successful set_priority call
                 \* gave each id (a function on the ids so set)
    steps,       \* main: the calls the running (or last) process has made,
                 \* in order
    scenario     \* SpecCli: how many commands of Scenario have just been
                 \* dispatched, in its order, starting on the fresh list

vars ==
    <<task_list, last, out, adds, file, saved, pc, args, cmd, exit, issued,
      save_failed, last_set, steps, scenario>>

----------------------------------------------------------------------------
(* Bounds of the model *)

\* longest task list the TodoList method calls build
MaxTasks == 2

\* longest task list the command-line actions build
MaxCliTasks == 2

\* longest task list the persistence and process actions store
MaxStored == 2

\* longest task list the adds at chosen next_id values build
MaxAddTasks == 3

----------------------------------------------------------------------------
(* model.rs: Priority, Task, TodoList *)

\* u32 (next_id and Task::id): two 16-bit halves; HalfModulus is 2^16
HalfModulus == 65536

\* the u32 of a natural below 2^31
U32(n) == [hi |-> n \div HalfModulus, lo |-> n % HalfModulus]

\* u32::MAX
U32Max == [hi |-> HalfModulus - 1, lo |-> HalfModulus - 1]

\* a < b on u32
U32Lt(a, b) == a.hi < b.hi \/ (a.hi = b.hi /\ a.lo < b.lo)

\* u32::overflowing_add(a, d) for d < 2^16: the wrapped sum and the carry out
OverflowingAdd(a, d) ==
    LET lo == a.lo + d
        hi == a.hi + lo \div HalfModulus
    IN  [val |-> [hi |-> hi % HalfModulus, lo |-> lo % HalfModulus],
         overflow |-> hi >= HalfModulus]

\* u32::overflowing_mul(a, m) for m < 2^15
OverflowingMul(a, m) ==
    LET lo == a.lo * m
        hi == a.hi * m + lo \div HalfModulus
    IN  [val |-> [hi |-> hi % HalfModulus, lo |-> lo % HalfModulus],
         overflow |-> hi >= HalfModulus]

Low == 0
Medium == 1
High == 2

Priority == {Low, Medium, High}

\* #[default] Low
PriorityDefault == Low

\* impl Display for Priority
PriorityDisplay(p) ==
    CASE p = Low -> "(L)"
      [] p = Medium -> "(M)"
      [] p = High -> "(H)"

\* struct Task
Task(id, text, done, priority) ==
    [id |-> id, text |-> text, done |-> done, priority |-> priority]

\* impl Display for Task: "{status} {priority} {id}: {text}"
TaskDisplay(t) ==
    [status |-> IF t.done THEN "[x]" ELSE "[ ]",
     priority |-> PriorityDisplay(t.priority),
     id |-> t.id,
     text |-> t.text]

\* struct TodoList
TodoList(tasks, next_id) == [tasks |-> tasks, next_id |-> next_id]

\* what #[derive(Default)] would give: next_id 0
TodoListDerived == TodoList(<<>>, U32(0))

\* impl Default for TodoList
TodoListDefault == TodoList(<<>>, U32(1))

\* Result<&Task, TodoError>, and a panic of the call
Ok(t) == [ok |-> TRUE, err |-> "None", task |-> <<t>>]
Err(e) == [ok |-> FALSE, err |-> e, task |-> <<>>]
OkUnit == [ok |-> TRUE, err |-> "None", task |-> <<>>]
Panic == Err("panic")

\* add with the id taken from the number of tasks (a 0-based id)
add_id_from_len(l, text, overflow_checks) ==
    LET id == U32(Len(l.tasks))
        pushed == Append(l.tasks, Task(id, text, FALSE, PriorityDefault))
    IN  [list |-> TodoList(pushed, OverflowingAdd(id, 1).val), res |-> Ok(pushed[Len(pushed)])]

\* add that leaves next_id as it was
add_keeps_next_id(l, text, overflow_checks) ==
    LET id == l.next_id
        pushed == Append(l.tasks, Task(id, text, FALSE, PriorityDefault))
    IN  [list |-> TodoList(pushed, id), res |-> Ok(pushed[Len(pushed)])]

\* TodoList::add.  `overflow_checks` is the build's setting: with it the
\* addition id + 1 panics on overflow (after the push), without it it wraps.
add(l, text, overflow_checks) ==
    LET id == l.next_id
        pushed == Append(l.tasks, Task(id, text, FALSE, PriorityDefault))
        next == OverflowingAdd(id, 1)
    IN  IF next.overflow /\ overflow_checks
        THEN [list |-> TodoList(pushed, id), res |-> Panic]
        ELSE [list |-> TodoList(pushed, next.val), res |-> Ok(pushed[Len(pushed)])]

\* find that falls back to the last task when no id matches
find_or_last(tasks, id) ==
    IF \E i \in 1..Len(tasks) : tasks[i].id = id
    THEN CHOOSE i \in 1..Len(tasks) :
            /\ tasks[i].id = id
            /\ \A j \in 1..(i - 1) : tasks[j].id # id
    ELSE Len(tasks)

\* self.tasks.iter_mut().find(|t| t.id == id): the first match, 0 for None
find(tasks, id) ==
    IF \E i \in 1..Len(tasks) : tasks[i].id = id
    THEN CHOOSE i \in 1..Len(tasks) :
            /\ tasks[i].id = id
            /\ \A j \in 1..(i - 1) : tasks[j].id # id
    ELSE 0

\* mark_done that flips the flag instead of setting it
mark_done_toggles(l, id) ==
    LET i == find(l.tasks, id)
    IN  IF i # 0
        THEN LET tasks == [l.tasks EXCEPT ![i].done = ~l.tasks[i].done]
             IN  [list |-> TodoList(tasks, l.next_id), res |-> Ok(tasks[i])]
        ELSE [list |-> l, res |-> Err("TaskNotFound")]

\* TodoList::mark_done
mark_done(l, id) ==
    LET i == find(l.tasks, id)
    IN  IF i # 0
        THEN LET tasks == [l.tasks EXCEPT ![i].done = TRUE]
             IN  [list |-> TodoList(tasks, l.next_id), res |-> Ok(tasks[i])]
        ELSE [list |-> l, res |-> Err("TaskNotFound")]

\* set_priority that writes to the first task whenever the id is found
set_priority_first(l, id, priority) ==
    LET i == find(l.tasks, id)
    IN  IF i # 0
        THEN LET tasks == [l.tasks EXCEPT ![1].priority = priority]
             IN  [list |-> TodoList(tasks, l.next_id), res |-> Ok(tasks[1])]
        ELSE [list |-> l, res |-> Err("TaskNotFound")]

\* set_priority that also puts the task back to not done
set_priority_clears_done(l, id, priority) ==
    LET i == find(l.tasks, id)
    IN  IF i # 0
        THEN LET tasks == [l.tasks EXCEPT ![i].priority = priority, ![i].done = FALSE]
             IN  [list |-> TodoList(tasks, l.next_id), res |-> Ok(tasks[i])]
        ELSE [list |-> l, res |-> Err("TaskNotFound")]

\* TodoList::set_priority
set_priority(l, id, priority) ==
    LET i == find(l.tasks, id)
    IN  IF i # 0
        THEN LET tasks == [l.tasks EXCEPT ![i].priority = priority]
             IN  [list |-> TodoList(tasks, l.next_id), res |-> Ok(tasks[i])]
        ELSE [list |-> l, res |-> Err("TaskNotFound")]

\* the tasks a listing iterates over
list_all(l) == l.tasks
list_done(l) == SelectSeq(l.tasks, LAMBDA t : t.done)
\* the todo listing with the filter's negation dropped
list_todo_unnegated(l) == SelectSeq(l.tasks, LAMBDA t : t.done)
list_todo(l) == SelectSeq(l.tasks, LAMBDA t : ~t.done)
list_by_priority(l, priority) == SelectSeq(l.tasks, LAMBDA t : t.priority = priority)

\* one line of standard output: the format string and the values it shows
\* ("" or <<>> for a value the format does not show; id is <<>> or <<id>>)
Line(fmt, status, priority, id, text) ==
    [fmt |-> fmt, status |-> status, priority |-> priority, id |-> id, text |-> text]

\* println!("{task}") for each task of a listing
PrintLines(tasks) ==
    [i \in 1..Len(tasks) |->
        LET d == TaskDisplay(tasks[i])
        IN  Line("{task}", d.status, d.priority, <<d.id>>, d.text)]

\* TodoList::print_list / print_done / print_todo / print_by_priority
print_list(l) == PrintLines(list_all(l))
print_done(l) == PrintLines(list_done(l))
print_todo(l) == PrintLines(list_todo(l))
print_by_priority(l, priority) == PrintLines(list_by_priority(l, priority))

----------------------------------------------------------------------------
(* cli.rs: parse_command, execute_command *)

Digits == <<"0", "1", "2", "3", "4", "5", "6", "7", "8", "9">>

IsDigit(c) == \E i \in 1..Len(Digits) : Digits[i] = c

DigitValue(c) == (CHOOSE i \in 1..Len(Digits) : Digits[i] = c) - 1

\* the digit loop of u32::from_str: checked_mul(10) then checked_add(digit);
\* <<v>> for Ok(v), <<>> for Err(ParseIntError)
RECURSIVE ParseDigits(_, _)
ParseDigits(s, acc) ==
    IF s = <<>> THEN <<acc>>
    ELSE IF ~IsDigit(Head(s)) THEN <<>>
    ELSE LET m == OverflowingMul(acc, 10)
             v == OverflowingAdd(m.val, DigitValue(Head(s)))
         IN  IF m.overflow \/ v.overflow THEN <<>> ELSE ParseDigits(Tail(s), v.val)

\* str::parse::<u32>: an optional leading "+", then at least one digit, no
\* other character, value at most u32::MAX
ParseU32(tok) ==
    IF tok = <<>> THEN <<>>
    ELSE IF Len(tok) = 1 /\ Head(tok) \in {"+", "-"} THEN <<>>
    ELSE IF Head(tok) = "+" THEN ParseDigits(Tail(tok), U32(0))
    ELSE ParseDigits(tok, U32(0))

UpperCase == <<"A", "B", "C", "D", "E", "F", "G", "H", "I", "J", "K", "L", "M",
               "N", "O", "P", "Q", "R", "S", "T", "U", "V", "W", "X", "Y", "Z">>
LowerCase == <<"a", "b", "c", "d", "e", "f", "g", "h", "i", "j", "k", "l", "m",
               "n", "o", "p", "q", "r", "s", "t", "u", "v", "w", "x", "y", "z">>

\* u8::to_ascii_lowercase
AsciiLower(c) ==
    IF \E i \in 1..Len(UpperCase) : UpperCase[i] = c
    THEN LowerCase[CHOOSE i \in 1..Len(UpperCase) : UpperCase[i] = c]
    ELSE c

\* a comparison that tells the cases apart
EqExact(a, b) == a = b

\* str::eq_ignore_ascii_case
EqIgnoreAsciiCase(a, b) ==
    /\ Len(a) = Len(b)
    /\ \A i \in 1..Len(a) : AsciiLower(a[i]) = AsciiLower(b[i])

\* impl FromStr for Priority: -1 stands for Err(TodoError::PriorityError)
PriorityFromStr(s) ==
    IF EqIgnoreAsciiCase(s, <<"l", "o", "w">>) \/ EqIgnoreAsciiCase(s, <<"l">>)
    THEN Low
    ELSE IF \/ EqIgnoreAsciiCase(s, <<"m", "e", "d", "i", "u", "m">>)
            \/ EqIgnoreAsciiCase(s, <<"m", "e", "d">>)
            \/ EqIgnoreAsciiCase(s, <<"m">>)
    THEN Medium
    ELSE IF EqIgnoreAsciiCase(s, <<"h", "i", "g", "h">>) \/ EqIgnoreAsciiCase(s, <<"h">>)
    THEN High
    ELSE -1

\* enum Command (a field a variant does not have is <<>>; id is <<>> or <<id>>;
\* priority is -1 when the variant has none)
Command(kind, text, id, priority) ==
    [kind |-> kind, text |-> text, id |-> id, priority |-> priority]

NoCommand == Command("None", <<>>, <<>>, -1)

ParseOk(c) == [ok |-> TRUE, err |-> "None", cmd |-> c]
ParseErr(e) == [ok |-> FALSE, err |-> e, cmd |-> NoCommand]

\* the subcommand names parse_command matches on
SubAdd == <<"a", "d", "d">>
SubList == <<"l", "i", "s", "t">>
SubListDone == <<"l", "i", "s", "t", "-", "d", "o", "n", "e">>
SubListTodo == <<"l", "i", "s", "t", "-", "t", "o", "d", "o">>
SubListPrio == <<"l", "i", "s", "t", "-", "p", "r", "i", "o">>
SubDone == <<"d", "o", "n", "e">>
SubSetPrio == <<"s", "e", "t", "-", "p", "r", "i", "o">>
SubHelp == <<"h", "e", "l", "p">>

\* the "list-prio" arm
ParseListPrio(a) ==
    IF Len(a) < 2 THEN ParseErr("PriorityError")
    ELSE LET p == PriorityFromStr(a[2])
         IN  IF p = -1 THEN ParseErr("PriorityError")
             ELSE ParseOk(Command("ListByPriority", <<>>, <<>>, p))

\* the "done" arm
ParseDone(a) ==
    IF Len(a) < 2 THEN ParseErr("MissingArgument")
    ELSE LET id == ParseU32(a[2])
         IN  IF id = <<>> THEN ParseErr("InvalidId")
             ELSE ParseOk(Command("Done", <<>>, id, -1))

\* the "set-prio" arm
ParseSetPrio(a) ==
    IF Len(a) < 2 THEN ParseErr("InvalidId")
    ELSE LET id == ParseU32(a[2])
         IN  IF id = <<>> THEN ParseErr("InvalidId")
             ELSE IF Len(a) < 3 THEN ParseErr("PriorityError")
             ELSE LET p == PriorityFromStr(a[3])
                  IN  IF p = -1 THEN ParseErr("PriorityError")
                      ELSE ParseOk(Command("SetPriority", <<>>, id, p))

\* parse_command
parse_command(a) ==
    IF Len(a) = 0 THEN ParseErr("UnknownCommand")
    ELSE CASE a[1] = SubAdd ->
                IF Len(a) < 2 THEN ParseErr("MissingArgument")
                ELSE ParseOk(Command("Add", a[2], <<>>, -1))
           [] a[1] = SubList -> ParseOk(Command("List", <<>>, <<>>, -1))
           [] a[1] = SubListDone -> ParseOk(Command("ListDone", <<>>, <<>>, -1))
           [] a[1] = SubListTodo -> ParseOk(Command("ListTodo", <<>>, <<>>, -1))
           [] a[1] = SubListPrio -> ParseListPrio(a)
           [] a[1] = SubDone -> ParseDone(a)
           [] a[1] = SubSetPrio -> ParseSetPrio(a)
           [] a[1] = SubHelp -> ParseOk(Command("Help", <<>>, <<>>, -1))
           [] OTHER -> ParseErr("UnknownCommand")

\* what execute_command gives back: the list, the Result and standard output
Executed(l, res, lines) == [list |-> l, res |-> res, out |-> lines]

\* Command::Add arm
ExecuteAdd(c, l, overflow_checks) ==
    LET r == add(l, c.text, overflow_checks)
    IN  IF r.res.ok
        THEN LET t == r.res.task[1]
             IN  Executed(r.list, OkUnit,
                    <<Line("Added {} as {} with {} priority", "",
                           PriorityDisplay(t.priority), <<t.id>>, t.text)>>)
        ELSE Executed(r.list, r.res, <<>>)

\* Command::Done arm
ExecuteDone(c, l) ==
    LET r == mark_done(l, c.id[1])
        marking == Line("Marking {id} as done...", "", "", c.id, <<>>)
    IN  IF r.res.ok
        THEN Executed(r.list, OkUnit,
                <<marking, Line("Task {} marked as done.", "", "", <<r.res.task[1].id>>, <<>>)>>)
        ELSE Executed(r.list, r.res, <<marking>>)

\* a SetPriority arm that reports the priority and leaves the task as it was
ExecuteSetPriorityReportsOnly(c, l) ==
    LET r == set_priority(l, c.id[1], c.priority)
    IN  IF r.res.ok
        THEN Executed(l, OkUnit,
                <<Line("Set task {} to {} priority", "",
                       PriorityDisplay(c.priority), c.id, <<>>)>>)
        ELSE Executed(r.list, r.res, <<>>)

\* Command::SetPriority arm
ExecuteSetPriority(c, l) ==
    LET r == set_priority(l, c.id[1], c.priority)
    IN  IF r.res.ok
        THEN LET t == r.res.task[1]
             IN  Executed(r.list, OkUnit,
                    <<Line("Set task {} to {} priority", "",
                           PriorityDisplay(t.priority), <<t.id>>, <<>>)>>)
        ELSE Executed(r.list, r.res, <<>>)

\* execute_command whose read-only arms hand back an empty list
execute_command_consuming(c, l, overflow_checks) ==
    CASE c.kind = "Add" -> ExecuteAdd(c, l, overflow_checks)
      [] c.kind = "Done" -> ExecuteDone(c, l)
      [] c.kind = "SetPriority" -> ExecuteSetPriority(c, l)
      [] OTHER -> Executed(TodoListDefault, OkUnit, <<>>)

\* execute_command
execute_command(c, l, overflow_checks) ==
    CASE c.kind = "Add" -> ExecuteAdd(c, l, overflow_checks)
      [] c.kind = "List" ->
            Executed(l, OkUnit, <<Line("Tasks:", "", "", <<>>, <<>>)>> \o print_list(l))
      [] c.kind = "ListDone" ->
            Executed(l, OkUnit, <<Line("Tasks Done:", "", "", <<>>, <<>>)>> \o print_done(l))
      [] c.kind = "ListTodo" ->
            Executed(l, OkUnit, <<Line("Tasks Todo:", "", "", <<>>, <<>>)>> \o print_todo(l))
      [] c.kind = "ListByPriority" ->
            Executed(l, OkUnit,
                <<Line("Tasks with {} priority:", "", PriorityDisplay(c.priority), <<>>, <<>>)>>
                    \o print_by_priority(l, c.priority))
      [] c.kind = "Done" -> ExecuteDone(c, l)
      [] c.kind = "SetPriority" -> ExecuteSetPriority(c, l)
      [] c.kind = "Help" ->
            Executed(l, OkUnit, <<Line("Available commands: ...", "", "", <<>>, <<>>)>>)

----------------------------------------------------------------------------
(* persistence.rs: save_todo_list, load_todo_list, and the document          *)
(* serde_json writes and reads for #[derive(Serialize, Deserialize)]         *)
(* TodoList: {"tasks": [{"id", "text", "done", "priority"}], "next_id"}.     *)
(* A document is held as its tree with every leaf in its JSON text form.     *)

\* v / 10 and v % 10 on u32
DivMod10(v) ==
    LET t == (v.hi % 10) * HalfModulus + v.lo
    IN  [q |-> [hi |-> v.hi \div 10, lo |-> t \div 10], r |-> t % 10]

\* a u32 written as a JSON number: its decimal digits
RECURSIVE FormatU32(_)
FormatU32(v) ==
    IF v.hi = 0 /\ v.lo < 10 THEN <<Digits[v.lo + 1]>>
    ELSE LET d == DivMod10(v) IN Append(FormatU32(d.q), Digits[d.r + 1])

\* a JSON number read as u32: digits only, no leading zero, at most u32::MAX;
\* <<v>> or <<>> for an error
JsonU32(j) ==
    IF j = <<>> THEN <<>>
    ELSE IF Len(j) > 1 /\ Head(j) = "0" THEN <<>>
    ELSE ParseDigits(j, U32(0))

\* a string body written with nothing escaped
EscapeNothing(s) == s

\* the body of a JSON string: quote and backslash are escaped
RECURSIVE Escape(_)
Escape(s) ==
    IF s = <<>> THEN <<>>
    ELSE IF Head(s) \in {"\"", "\\"} THEN <<"\\", Head(s)>> \o Escape(Tail(s))
    ELSE <<Head(s)>> \o Escape(Tail(s))

\* a String written as a JSON string
FormatString(s) == <<"\"">> \o Escape(s) \o <<"\"">>

\* the body of a JSON string read back: <<s>> or <<>> for an error
RECURSIVE Unescape(_)
Unescape(b) ==
    IF b = <<>> THEN <<<<>>>>
    ELSE IF Head(b) = "\""  THEN <<>>
    ELSE IF Head(b) = "\\"
         THEN IF Len(b) < 2 \/ b[2] \notin {"\"", "\\"} THEN <<>>
              ELSE LET rest == Unescape(Tail(Tail(b)))
                   IN  IF rest = <<>> THEN <<>> ELSE <<<<b[2]>> \o rest[1]>>
    ELSE LET rest == Unescape(Tail(b))
         IN  IF rest = <<>> THEN <<>> ELSE <<<<Head(b)>> \o rest[1]>>

\* a JSON string read as String: <<s>> or <<>> for an error
JsonString(j) ==
    IF Len(j) < 2 \/ j[1] # "\"" \/ j[Len(j)] # "\"" THEN <<>>
    ELSE Unescape(SubSeq(j, 2, Len(j) - 1))

\* a bool always written as false
FormatBoolAlwaysFalse(b) == "false"

\* a bool written as JSON, and read back
FormatBool(b) == IF b THEN "true" ELSE "false"
JsonBool(j) == IF j = "true" THEN <<TRUE>> ELSE IF j = "false" THEN <<FALSE>> ELSE <<>>

\* derive(Serialize) for Priority: the variant's name
FormatPriority(p) ==
    CASE p = Low -> "Low"
      [] p = Medium -> "Medium"
      [] p = High -> "High"

\* derive(Deserialize) for Priority: exactly a variant's name
JsonPriority(j) ==
    IF j = "Low" THEN <<Low>>
    ELSE IF j = "Medium" THEN <<Medium>>
    ELSE IF j = "High" THEN <<High>>
    ELSE <<>>

\* derive(Serialize) for Task
FormatTask(t) ==
    [id |-> FormatU32(t.id), text |-> FormatString(t.text),
     done |-> FormatBool(t.done), priority |-> FormatPriority(t.priority)]

\* a document written with next_id left at its initial value
to_string_pretty_initial_next_id(l) ==
    [tasks |-> [i \in 1..Len(l.tasks) |-> FormatTask(l.tasks[i])],
     next_id |-> FormatU32(U32(1))]

\* serde_json::to_string_pretty(list)
to_string_pretty(l) ==
    [tasks |-> [i \in 1..Len(l.tasks) |-> FormatTask(l.tasks[i])],
     next_id |-> FormatU32(l.next_id)]

\* whether a task object of a document deserializes
JsonTaskOk(j) ==
    /\ JsonU32(j.id) # <<>>
    /\ JsonString(j.text) # <<>>
    /\ JsonBool(j.done) # <<>>
    /\ JsonPriority(j.priority) # <<>>

\* derive(Deserialize) for Task, on a task object that deserializes
JsonTask(j) ==
    Task(JsonU32(j.id)[1], JsonString(j.text)[1], JsonBool(j.done)[1],
         JsonPriority(j.priority)[1])

\* serde_json::from_str::<TodoList>: <<list>> for Ok, <<>> for Err
from_str(doc) ==
    IF /\ \A i \in 1..Len(doc.tasks) : JsonTaskOk(doc.tasks[i])
       /\ JsonU32(doc.next_id) # <<>>
    THEN <<TodoList([i \in 1..Len(doc.tasks) |-> JsonTask(doc.tasks[i])],
                    JsonU32(doc.next_id)[1])>>
    ELSE <<>>

\* what is at the path:
\*   "missing"     no file
\*   "unreadable"  fs::read_to_string fails (not UTF-8, no permission to read)
\*   "truncated"   text that is no JSON value (a write that stopped half way)
\*   "document"    a JSON object of the TodoList shape
NoDoc == [tasks |-> <<>>, next_id |-> <<>>]
File(kind, doc) == [kind |-> kind, doc |-> doc]

\* load_todo_list
load_todo_list(f) ==
    IF f.kind \in {"missing", "unreadable"} THEN TodoListDefault
    ELSE IF f.kind = "truncated" THEN TodoListDefault
    ELSE LET r == from_str(f.doc)
         IN  IF r = <<>> THEN TodoListDefault ELSE r[1]

\* a save that reports success and leaves the file as it was
save_todo_list_keeps_file(f, l, io) ==
    CASE io = "written" -> [file |-> f, res |-> OkUnit]
      [] io = "open failed" -> [file |-> f, res |-> Err("SaveError")]
      [] io = "write failed" -> [file |-> File("truncated", NoDoc), res |-> Err("SaveError")]

\* save_todo_list: the file afterwards and the Result.  std::fs::write opens
\* (creates or truncates) the file and then writes: `io` is how far it got.
save_todo_list(f, l, io) ==
    CASE io = "written" -> [file |-> File("document", to_string_pretty(l)), res |-> OkUnit]
      [] io = "open failed" -> [file |-> f, res |-> Err("SaveError")]
      [] io = "write failed" -> [file |-> File("truncated", NoDoc), res |-> Err("SaveError")]

\* the outcomes of std::fs::write
IoOutcomes == {"written", "open failed", "write failed"}

----------------------------------------------------------------------------
(* Inputs *)

\* task texts: the empty text, a plain one, one with a quote and a backslash
Texts == {<<>>, <<"m", "\"", "\\">>}

\* the text of the scenario's task
BuyMilk == <<"b", "u", "y", " ", "m", "i", "l", "k">>

\* ids the callers pass: absent and present ones, 0 and u32::MAX
IdInputs == {U32(0), U32(1), U32(2), U32(3), U32Max}

\* id tokens on the command line
IdTokens ==
    {<<"1">>, <<"2">>, <<"0">>, <<"5">>, <<"+", "1">>, <<"-", "1">>, <<"a", "b", "c">>,
     <<>>, <<"0", "2">>,
     <<"4", "2", "9", "4", "9", "6", "7", "2", "9", "5">>,
     <<"4", "2", "9", "4", "9", "6", "7", "2", "9", "6">>}

\* priority tokens on the command line
PriorityTokens ==
    {<<"L">>, <<"M", "e", "d", "i", "u", "m">>, <<"H", "I", "G", "H">>, <<"x", "y", "z">>, <<>>}

\* argument vectors (std::env::args().skip(1))
ArgVectors ==
    {<<>>, <<SubAdd>>, <<SubList>>, <<SubListDone>>, <<SubListTodo>>, <<SubListPrio>>,
     <<SubDone>>, <<SubSetPrio>>, <<SubHelp>>, <<<<"r", "m">>>>, <<SubList, <<"1">>>>}
    \cup {<<SubAdd, t>> : t \in Texts \cup {BuyMilk}}
    \cup {<<SubListPrio, p>> : p \in PriorityTokens}
    \cup {<<SubDone, i>> : i \in IdTokens}
    \cup {<<SubSetPrio, i>> : i \in {<<"1">>, <<"a", "b", "c">>}}
    \cup {<<SubSetPrio, i, p>> :
            i \in {<<"1">>, <<"2">>, <<"5">>},
            p \in {<<"l">>, <<"M", "E", "D">>, <<"h", "i", "g", "h">>}}
    \cup {<<SubSetPrio, <<"1">>, <<"x", "y", "z">>>>, <<SubSetPrio, <<"-", "1">>, <<"l">>>>}

\* the argument vectors the process-level actions pass to main
MainArgVectors ==
    {<<>>, <<SubAdd>>, <<SubList>>, <<SubListDone>>, <<SubListTodo>>, <<SubDone>>,
     <<SubHelp>>, <<<<"r", "m">>>>,
     <<SubListPrio, <<"h">>>>, <<SubListPrio, <<"x", "y", "z">>>>,
     <<SubDone, <<"1">>>>, <<SubDone, <<"2">>>>, <<SubDone, <<"5">>>>,
     <<SubDone, <<"a", "b", "c">>>>,
     <<SubSetPrio, <<"1">>, <<"h", "i", "g", "h">>>>,
     <<SubSetPrio, <<"2">>, <<"M", "E", "D">>>>,
     <<SubSetPrio, <<"5">>, <<"l">>>>,
     <<SubSetPrio, <<"1">>, <<"x", "y", "z">>>>}
    \cup {<<SubAdd, t>> : t \in Texts}

\* the lists the TodoList methods build from TodoList::default() with at most
\* n adds: ids 1..k in order, next_id k + 1, any text, done and priority
ListsUpTo(n) ==
    UNION {
        {TodoList([i \in 1..k |-> Task(U32(i), f[i][1], f[i][2], f[i][3])], U32(k + 1)) :
            f \in [1..k -> Texts \X BOOLEAN \X Priority]} :
        k \in 0..n}

\* documents that do not deserialize as TodoList: an unknown priority name,
\* and a next_id above u32::MAX
ForeignDocs ==
    {[tasks |-> <<[id |-> <<"1">>, text |-> <<"\"", "m", "\"">>, done |-> "false",
                   priority |-> "low"]>>,
      next_id |-> <<"2">>],
     [tasks |-> <<>>,
      next_id |-> <<"4", "2", "9", "4", "9", "6", "7", "2", "9", "6">>]}

\* what can be at the path before the program has ever saved
InitialFiles ==
    {File("missing", NoDoc), File("unreadable", NoDoc), File("truncated", NoDoc)}
    \cup {File("document", d) : d \in ForeignDocs}

\* a call and what it returned; `again` tells that the call before it was
\* the same call with the same arguments
Call(op, a, res) ==
    [op |-> op, args |-> a, res |-> res, again |-> (last.op = op /\ last.args = a)]

NoCall == [op |-> "none", args |-> <<>>, res |-> OkUnit, again |-> FALSE]

\* no set_priority call has succeeded yet
NeverSet == [id \in {} |-> Low]

----------------------------------------------------------------------------
(* Spec: one in-memory TodoList driven as the unit tests drive it *)

Init ==
    /\ task_list = TodoListDefault
    /\ last = NoCall
    /\ out = <<>>
    /\ adds = 0
    /\ file = File("missing", NoDoc)
    /\ saved = TodoListDefault
    /\ pc = "idle"
    /\ args = <<>>
    /\ cmd = NoCommand
    /\ exit = "none"
    /\ issued = {}
    /\ save_failed = FALSE
    /\ last_set = NeverSet
    /\ steps = <<>>
    /\ scenario = 0

\* the variables the list-level actions never touch
ListFrame == UNCHANGED <<file, saved, pc, args, cmd, exit, issued, save_failed, steps>>

\* the same, for an action that gives cmd a value
ListFrameButCmd == UNCHANGED <<file, saved, pc, args, exit, issued, save_failed, steps>>

\* the actions that are not a command dispatch
NoDispatch == UNCHANGED scenario

\* the actions that are not a direct set_priority call
NoSet == UNCHANGED last_set

\* the builds that behave differently on this list: debug (overflow checks)
\* and release differ only when next_id + 1 overflows
BuildProfiles(l) == IF OverflowingAdd(l.next_id, 1).overflow THEN BOOLEAN ELSE {TRUE}

\* task_list.add(text)
Add ==
    \E text \in Texts, overflow_checks \in BuildProfiles(task_list) :
        /\ Len(task_list.tasks) < MaxTasks
        /\ LET r == add(task_list, text, overflow_checks)
           IN  /\ task_list' = r.list
               /\ last' = Call("add", <<text>>, r.res)
        /\ out' = <<>>
        /\ adds' = adds + 1
        /\ ListFrame
        /\ NoDispatch
        /\ NoSet

\* task_list.mark_done(id)
MarkDone ==
    \E id \in IdInputs :
        /\ LET r == mark_done(task_list, id)
           IN  /\ task_list' = r.list
               /\ last' = Call("mark_done", <<id>>, r.res)
        /\ out' = <<>>
        /\ UNCHANGED adds
        /\ ListFrame
        /\ NoDispatch
        /\ NoSet

\* task_list.set_priority(id, priority)
SetPriority ==
    \E id \in IdInputs, priority \in Priority :
        /\ LET r == set_priority(task_list, id, priority)
           IN  /\ task_list' = r.list
               /\ last' = Call("set_priority", <<id, priority>>, r.res)
               /\ last_set' = IF r.res.ok
                               THEN [i \in DOMAIN last_set \cup {id} |->
                                        IF i = id THEN priority ELSE last_set[i]]
                               ELSE last_set
        /\ out' = <<>>
        /\ UNCHANGED adds
        /\ ListFrame
        /\ NoDispatch

\* task_list.print_list()
PrintList ==
    /\ out' = print_list(task_list)
    /\ last' = Call("print_list", <<>>, OkUnit)
    /\ UNCHANGED <<task_list, adds>>
    /\ ListFrame
    /\ NoDispatch
    /\ NoSet

\* task_list.print_done()
PrintDone ==
    /\ out' = print_done(task_list)
    /\ last' = Call("print_done", <<>>, OkUnit)
    /\ UNCHANGED <<task_list, adds>>
    /\ ListFrame
    /\ NoDispatch
    /\ NoSet

\* task_list.print_todo()
PrintTodo ==
    /\ out' = print_todo(task_list)
    /\ last' = Call("print_todo", <<>>, OkUnit)
    /\ UNCHANGED <<task_list, adds>>
    /\ ListFrame
    /\ NoDispatch
    /\ NoSet

\* task_list.print_by_priority(priority)
PrintByPriority ==
    \E priority \in Priority :
        /\ out' = print_by_priority(task_list, priority)
        /\ last' = Call("print_by_priority", <<priority>>, OkUnit)
        /\ UNCHANGED <<task_list, adds>>
        /\ ListFrame
        /\ NoDispatch
        /\ NoSet

Next ==
    \/ Add
    \/ MarkDone
    \/ SetPriority
    \/ PrintList
    \/ PrintDone
    \/ PrintTodo
    \/ PrintByPriority

Spec == Init /\ [][Next]_vars

----------------------------------------------------------------------------
(* SpecCli: one in-memory TodoList driven through the command line layer *)

\* the commands of the scenario: add "buy milk", set-prio 1 high, done 1,
\* list-done, list-todo
Scenario ==
    <<<<SubAdd, BuyMilk>>, <<SubSetPrio, <<"1">>, <<"h", "i", "g", "h">>>>, <<SubDone, <<"1">>>>,
      <<SubListDone>>, <<SubListTodo>>>>

\* the scenario's progress after the argument vector a is dispatched on list l
ScenarioAfter(a, l) ==
    IF scenario < Len(Scenario) /\ scenario > 0 /\ a = Scenario[scenario + 1]
    THEN scenario + 1
    ELSE IF a = Scenario[1] /\ l = TodoListDefault THEN 1 ELSE 0

\* parse_command on each argument vector
Parsed == [a \in ArgVectors \cup MainArgVectors |-> parse_command(a)]

\* execute_command(parse_command(args)?, &mut task_list)
Dispatch ==
    \E a \in ArgVectors, overflow_checks \in BuildProfiles(task_list) :
        LET p == Parsed[a]
        IN  /\ p.ok /\ p.cmd.kind = "Add" => Len(task_list.tasks) < MaxCliTasks
            /\ IF p.ok
               THEN LET e == execute_command(p.cmd, task_list, overflow_checks)
                    IN  /\ task_list' = e.list
                        /\ last' = Call("command", a, e.res)
                        /\ out' = e.out
                        /\ adds' = IF p.cmd.kind = "Add" THEN adds + 1 ELSE adds
               ELSE /\ last' = Call("command", a, Err(p.err))
                    /\ out' = <<>>
                    /\ UNCHANGED <<task_list, adds>>
            /\ scenario' = ScenarioAfter(a, task_list)
            /\ ListFrame
            /\ NoSet

NextCli == Dispatch

SpecCli == Init /\ [][NextCli]_vars

----------------------------------------------------------------------------
(* SpecPersist: save_todo_list and load_todo_list on one path, as           *)
(* test_save_todo uses them                                                  *)

InitPersist ==
    /\ task_list \in ListsUpTo(MaxStored)
    /\ last = NoCall
    /\ out = <<>>
    /\ adds = 0
    /\ file \in InitialFiles
    /\ saved = TodoListDefault
    /\ pc = "idle"
    /\ args = <<>>
    /\ cmd = NoCommand
    /\ exit = "none"
    /\ issued = {}
    /\ save_failed = FALSE
    /\ last_set = NeverSet
    /\ steps = <<>>
    /\ scenario = 0

\* save_todo_list(path, &task_list)
Save ==
    \E io \in IoOutcomes :
        LET r == save_todo_list(file, task_list, io)
        IN  /\ file' = r.file
            /\ last' = Call("save_todo_list", <<>>, r.res)
            /\ save_failed' = (save_failed \/ ~r.res.ok)
            /\ UNCHANGED <<task_list, out, adds, saved, pc, args, cmd, exit, issued, last_set,
                           steps, scenario>>

\* let saved = load_todo_list(path)
Load ==
    /\ saved' = load_todo_list(file)
    /\ last' = Call("load_todo_list", <<>>, OkUnit)
    /\ UNCHANGED <<task_list, out, adds, file, pc, args, cmd, exit, issued, save_failed,
                   last_set, steps, scenario>>

NextPersist ==
    \/ Save
    \/ Load

SpecPersist == InitPersist /\ [][NextPersist]_vars

----------------------------------------------------------------------------
(* SpecMain: successive invocations of main (main.rs:100-108), one command  *)
(* each, sharing the file at PATH.  pc is the position of the running        *)
(* process: "idle" (none running), "load", "run", "save".  main.rs holds     *)
(* the program in its single-file form: its parse_command, run,              *)
(* load_todo_list and save_todo_list are the functions of cli.rs             *)
(* (parse_command, execute_command) and persistence.rs, which main's steps   *)
(* use here.  task_list keeps the memory of the last process until the next  *)
(* one loads.                                                                *)

InitMain ==
    /\ task_list = TodoListDefault
    /\ last = NoCall
    /\ out = <<>>
    /\ adds = 0
    /\ file \in InitialFiles
    /\ saved = TodoListDefault
    /\ pc = "idle"
    /\ args = <<>>
    /\ cmd = NoCommand
    /\ exit = "none"
    /\ issued = {}
    /\ save_failed = FALSE
    /\ last_set = NeverSet
    /\ steps = <<>>
    /\ scenario = 0

\* a step that goes on whatever the Result was
QuestionMarkIgnored(ok, next) == next

\* the ? operator in main: on Ok the process goes on to its next call, on Err
\* main returns the error and the process ends
QuestionMark(ok, next) == IF ok THEN next ELSE "idle"

\* the number of tasks the next load_todo_list will find
StoredLen == Len(load_todo_list(file).tasks)

\* let cmd = parse_command(args)?
MainParse ==
    \E a \in MainArgVectors :
        LET p == Parsed[a]
        IN  /\ pc = "idle"
            /\ p.ok /\ p.cmd.kind = "Add" => StoredLen < MaxStored
            /\ args' = a
            /\ cmd' = p.cmd
            /\ last' = Call("parse_command", a, IF p.ok THEN OkUnit ELSE Err(p.err))
            /\ out' = <<>>
            /\ pc' = QuestionMark(p.ok, "load")
            /\ exit' = IF p.ok THEN "running" ELSE p.err
            /\ steps' = <<"parse_command">>
            /\ UNCHANGED <<task_list, adds, file, saved, issued, save_failed, last_set, scenario>>

\* let mut task_list = load_todo_list(PATH)
MainLoad ==
    /\ pc = "load"
    /\ task_list' = load_todo_list(file)
    /\ last' = Call("load_todo_list", <<>>, OkUnit)
    /\ pc' = "run"
    /\ steps' = Append(steps, "load_todo_list")
    /\ UNCHANGED <<out, adds, file, saved, args, cmd, exit, issued, save_failed, last_set,
                   scenario>>

\* run(cmd, &mut task_list)?
MainRun ==
    \E overflow_checks \in BuildProfiles(task_list) :
        LET e == execute_command(cmd, task_list, overflow_checks)
        IN  /\ pc = "run"
            /\ task_list' = e.list
            /\ last' = Call("command", args, e.res)
            /\ out' = e.out
            /\ issued' = IF cmd.kind = "Add" /\ e.res.ok
                         THEN issued \cup {e.out[1].id[1]}
                         ELSE issued
            /\ pc' = QuestionMark(e.res.ok, "save")
            /\ exit' = IF e.res.ok THEN exit ELSE e.res.err
            /\ steps' = Append(steps, "run")
            /\ UNCHANGED <<adds, file, saved, args, cmd, save_failed, last_set, scenario>>

\* save_todo_list(PATH, &task_list)?; Ok(())
MainSave ==
    \E io \in IoOutcomes :
        LET r == save_todo_list(file, task_list, io)
        IN  /\ pc = "save"
            /\ file' = r.file
            /\ last' = Call("save_todo_list", <<>>, r.res)
            /\ save_failed' = (save_failed \/ ~r.res.ok)
            /\ pc' = "idle"
            /\ exit' = IF r.res.ok THEN "ok" ELSE r.res.err
            /\ steps' = Append(steps, "save_todo_list")
            /\ UNCHANGED <<task_list, out, adds, saved, args, cmd, issued, last_set, scenario>>

NextMain ==
    \/ MainParse
    \/ MainLoad
    \/ MainRun
    \/ MainSave

SpecMain == InitMain /\ [][NextMain]_vars

----------------------------------------------------------------------------
(* SpecAdd: TodoList::add on lists whose next_id is anywhere in the u32      *)
(* range.  The list is the one load_todo_list returns for a stored document, *)
(* which is how a process comes to hold a next_id it did not count up to.    *)

\* next_id values: the first ones, those around 2^16, and the last two
NextIds ==
    {U32(1), U32(2), U32(HalfModulus - 1), U32(HalfModulus),
     [hi |-> HalfModulus - 1, lo |-> HalfModulus - 2], U32Max}

\* stored documents with these next_id values, with no task or with task 1
AddDocs ==
    {to_string_pretty(TodoList(ts, n)) :
        ts \in {<<>>, <<Task(U32(1), <<>>, TRUE, High)>>}, n \in NextIds}

InitAdd ==
    /\ file \in {File("document", d) : d \in AddDocs}
    /\ task_list = load_todo_list(file)
    /\ last = NoCall
    /\ out = <<>>
    /\ adds = 0
    /\ saved = TodoListDefault
    /\ pc = "idle"
    /\ args = <<>>
    /\ cmd = NoCommand
    /\ exit = "none"
    /\ issued = {}
    /\ save_failed = FALSE
    /\ last_set = NeverSet
    /\ steps = <<>>
    /\ scenario = 0

\* task_list.add(text), in a debug build (overflow checks) or a release
\* build; a panic ends the process
AddCall ==
    \E text \in Texts, overflow_checks \in BuildProfiles(task_list) :
        /\ Len(task_list.tasks) < MaxAddTasks
        /\ last.res # Panic
        /\ LET r == add(task_list, text, overflow_checks)
           IN  /\ task_list' = r.list
               /\ last' = Call("add", <<text>>, r.res)
        /\ out' = <<>>
        /\ adds' = adds + 1
        /\ ListFrame
        /\ NoDispatch
        /\ NoSet

NextAdd == AddCall

SpecAdd == InitAdd /\ [][NextAdd]_vars

----------------------------------------------------------------------------
(* SpecPriority: Priority::from_str on priority tokens, called as the        *)
(* list-prio arm of parse_command calls it (token.parse()?)                   *)

\* the upper-case form of a lower-case letter
Capital(c) == UpperCase[CHOOSE i \in 1..Len(LowerCase) : LowerCase[i] = c]

\* every casing of a lower-case word
Casings(w) ==
    {[i \in 1..Len(w) |-> IF up[i] THEN Capital(w[i]) ELSE w[i]] :
        up \in [1..Len(w) -> BOOLEAN]}

\* the casings of the names and abbreviations of each priority
LowTokens == Casings(<<"l", "o", "w">>) \cup Casings(<<"l">>)
MediumTokens ==
    Casings(<<"m", "e", "d", "i", "u", "m">>) \cup Casings(<<"m", "e", "d">>)
        \cup Casings(<<"m">>)
HighTokens == Casings(<<"h", "i", "g", "h">>) \cup Casings(<<"h">>)

\* tokens that name no priority: other words, the empty token, prefixes and
\* extensions of the names, names with a space, digits
OtherTokens ==
    {<<"x", "y", "z">>, <<>>, <<"l", "o">>, <<"L", "O", "W", "S">>, <<"m", "e">>,
     <<"M", "e", "d", "i", "u">>, <<"m", "i", "d">>, <<"h", "i">>, <<"H", "I", "G">>,
     <<" ", "l", "o", "w">>, <<"h", "i", "g", "h", " ">>, <<"0">>, <<"1">>, <<"l", "0", "w">>,
     <<"l", "m">>, <<"n", "o", "n", "e">>}

PriorityInputs == LowTokens \cup MediumTokens \cup HighTokens \cup OtherTokens

InitPriority ==
    /\ task_list = TodoListDefault
    /\ last = NoCall
    /\ out = <<>>
    /\ adds = 0
    /\ file = File("missing", NoDoc)
    /\ saved = TodoListDefault
    /\ pc = "idle"
    /\ args = <<>>
    /\ cmd = NoCommand
    /\ exit = "none"
    /\ issued = {}
    /\ save_failed = FALSE
    /\ last_set = NeverSet
    /\ steps = <<>>
    /\ scenario = 0

\* let priority: Priority = token.parse()?; Ok(Command::ListByPriority { priority })
ParsePriority ==
    \E tok \in PriorityInputs :
        LET p == ParseListPrio(<<SubListPrio, tok>>)
        IN  /\ cmd' = p.cmd
            /\ last' = Call("Priority::from_str", <<tok>>, IF p.ok THEN OkUnit ELSE Err(p.err))
            /\ UNCHANGED <<task_list, out, adds>>
            /\ ListFrameButCmd
            /\ NoDispatch
            /\ NoSet

NextPriority == ParsePriority

SpecPriority == InitPriority /\ [][NextPriority]_vars

----------------------------------------------------------------------------
(* Properties *)

\* Spec builds exactly the lists ListsUpTo describes (the inputs of
\* SpecPersist are lists the methods can build)
ListsAreBuilt == task_list \in ListsUpTo(MaxTasks)

\* C1: on a list built by TodoList::default(), the k-th add call returns
\* Ok with a task whose id is k, whatever mark_done and set_priority calls
\* came in between
C1_AddReturnsCallNumber ==
    last.op = "add" =>
        /\ last.res.ok
        /\ last.res.task[1].id = U32(adds)
        /\ task_list.tasks[Len(task_list.tasks)] = last.res.task[1]

\* C1 witness: the second add has returned, after a mark_done that succeeded
C1_Witness ==
    /\ last.op = "add"
    /\ adds = 2
    /\ task_list.tasks[1].done
    /\ last.res.task[1].id = U32(2)

\* no task of the list has the id
NoTaskHas(l, id) == \A i \in 1..Len(l.tasks) : l.tasks[i].id # id

\* C2: in every state of a TodoList, built by TodoList::default() or by
\* load_todo_list from the stored document when a process starts, next_id
\* is above the id of every task and no two tasks have the same id
C2_NextIdAboveIds ==
    /\ \A i \in 1..Len(task_list.tasks) :
            U32Lt(task_list.tasks[i].id, task_list.next_id)
    /\ \A i, j \in 1..Len(task_list.tasks) :
            i # j => task_list.tasks[i].id # task_list.tasks[j].id

\* C2 witness: a process has just loaded a stored document with two tasks
C2_Witness ==
    /\ pc = "run"
    /\ last.op = "load_todo_list"
    /\ file.kind = "document"
    /\ Len(task_list.tasks) = 2

\* C3: mark_done(id) and set_priority(id, p) with an id no task has return
\* Err(TaskNotFound) and leave tasks and next_id as they were
C3_AbsentIdLeavesList ==
    [][(/\ last'.op \in {"mark_done", "set_priority"}
        /\ NoTaskHas(task_list, last'.args[1]))
            => (/\ last'.res = Err("TaskNotFound")
                /\ task_list' = task_list)]_vars

\* C3 witness: set_priority has failed on a list of two tasks
C3_Witness ==
    /\ last.op = "set_priority"
    /\ ~last.res.ok
    /\ last.res.err = "TaskNotFound"
    /\ Len(task_list.tasks) = 2

\* C4: a mark_done(id) that follows a successful mark_done(id) succeeds too,
\* both return the task with done = TRUE, and the second leaves the list as
\* the first left it
C4_MarkDoneIdempotent ==
    [][(/\ last'.op = "mark_done"
        /\ last'.again
        /\ last.res.ok)
            => (/\ last.res.task[1].done
                /\ last'.res.ok
                /\ last'.res.task[1].done
                /\ task_list' = task_list)]_vars

\* C4 witness: the second of two successive mark_done(id) calls has returned
C4_Witness ==
    /\ last.op = "mark_done"
    /\ last.again
    /\ last.res.ok
    /\ last.res.task[1].done

\* the position of a task in a sequence that holds it
Position(tasks, t) == CHOOSE k \in 1..Len(tasks) : tasks[k] = t

\* sub holds tasks of full, each once, in the order full has them
InOrderOf(sub, full) ==
    /\ \A i \in 1..Len(sub) : \E k \in 1..Len(full) : full[k] = sub[i]
    /\ \A i, j \in 1..Len(sub) :
            i < j => Position(full, sub[i]) < Position(full, sub[j])

\* the tasks of a sequence, as a set
Members(tasks) == {tasks[i] : i \in 1..Len(tasks)}

\* C5: the done listing and the todo listing share no task, together hold
\* every task of the full listing exactly once, and each keeps the tasks in
\* insertion order
C5_DoneTodoPartition ==
    LET all == list_all(task_list)
        done == list_done(task_list)
        todo == list_todo(task_list)
    IN  /\ Members(done) \cap Members(todo) = {}
        /\ Members(done) \cup Members(todo) = Members(all)
        /\ Len(done) + Len(todo) = Len(all)
        /\ InOrderOf(done, all)
        /\ InOrderOf(todo, all)
        /\ \A i \in 1..Len(done) : done[i].done
        /\ \A i \in 1..Len(todo) : ~todo[i].done

\* C5 witness: print_done has printed one task of a list that also holds a
\* task still to do
C5_Witness ==
    /\ last.op = "print_done"
    /\ Len(out) = 1
    /\ Len(list_todo(task_list)) = 1
    /\ out[1].id = <<U32(2)>>

\* the priority the last successful set_priority gave the id, Low when none did
LastSetOrLow(id) == IF id \in DOMAIN last_set THEN last_set[id] ELSE Low

\* C6: for each priority p the by-priority listing holds exactly the tasks
\* whose priority was last set to p, or was never set when p is Low, in list
\* order; every task is in exactly one of the three listings
C6_ByPriorityPartition ==
    /\ \A p \in Priority :
            list_by_priority(task_list, p)
                = SelectSeq(task_list.tasks, LAMBDA t : LastSetOrLow(t.id) = p)
    /\ \A i \in 1..Len(task_list.tasks) :
            Cardinality({p \in Priority :
                task_list.tasks[i] \in Members(list_by_priority(task_list, p))}) = 1

\* C6 witness: print_by_priority(High) has printed the one task set to High,
\* of a list whose other task was never set
C6_Witness ==
    /\ last.op = "print_by_priority"
    /\ last.args = <<High>>
    /\ Len(out) = 1
    /\ out[1].id = <<U32(2)>>
    /\ Len(task_list.tasks) = 2
    /\ DOMAIN last_set = {U32(2)}

\* the file holds a document that save_todo_list wrote
Persisted == file.kind = "document" /\ file.doc \notin ForeignDocs

\* C7: once save_todo_list has succeeded on the path, load_todo_list from
\* it gives back the list that was saved: the same tasks in the same order
\* with the same id, text, done and priority, and the same next_id
C7_SaveLoadRoundTrip ==
    /\ (last.op = "save_todo_list" /\ last.res.ok) => load_todo_list(file) = task_list
    /\ (last.op = "load_todo_list" /\ Persisted) => saved = task_list

\* C7 witness: a load after a save has returned two tasks, one done and one
\* not, one High, one with a quote and a backslash in its text
C7_Witness ==
    /\ last.op = "load_todo_list"
    /\ Persisted
    /\ Len(saved.tasks) = 2
    /\ saved.tasks[1].done
    /\ saved.tasks[1].priority = High
    /\ ~saved.tasks[2].done
    /\ saved.tasks[2].text = <<"m", "\"", "\\">>
    /\ saved.next_id = U32(3)

\* there is no file, it cannot be read, or its content is no TodoList document
NotLoadable ==
    \/ file.kind \in {"missing", "unreadable", "truncated"}
    \/ file.kind = "document" /\ file.doc \in ForeignDocs

\* C8: load_todo_list of a missing, unreadable or undeserializable file
\* returns the empty list with next_id 1, and no error
C8_LoadFallsBackToEmpty ==
    (last.op = "load_todo_list" /\ NotLoadable) =>
        /\ last.res.ok
        /\ saved.tasks = <<>>
        /\ saved.next_id = U32(1)

\* C8 witness: load_todo_list has returned for a document whose content does
\* not deserialize, while the caller holds a list of two tasks
C8_Witness ==
    /\ last.op = "load_todo_list"
    /\ file.kind = "document"
    /\ file.doc \in ForeignDocs
    /\ saved.tasks = <<>>
    /\ Len(task_list.tasks) = 2

\* every task of old is still in new at the same place, with its id and text
Kept(old, new) ==
    /\ Len(old.tasks) <= Len(new.tasks)
    /\ \A i \in 1..Len(old.tasks) :
            /\ new.tasks[i].id = old.tasks[i].id
            /\ new.tasks[i].text = old.tasks[i].text

\* a step in which the running process's add returns, and the id is new
AddIssuesFreshId ==
    (pc = "run" /\ cmd.kind = "Add" /\ last'.res.ok)
        => task_list'.tasks[Len(task_list'.tasks)].id \notin issued

PositiveId(tok) == ParseU32(tok) # <<>> /\ ParseU32(tok) # <<U32(0)>>

\* C10 as claimed: `done` with an id token that is no positive integer
\* fails with InvalidId, with no id token with MissingArgument, with a
\* positive id no task has with TaskNotFound; the list is unchanged
C10_DoneErrors ==
    [][(/\ last'.op = "command"
        /\ Len(last'.args) >= 1
        /\ last'.args[1] = SubDone)
            => (/\ Len(last'.args) = 1
                    => (last'.res = Err("MissingArgument") /\ task_list' = task_list)
                /\ (Len(last'.args) >= 2 /\ ~PositiveId(last'.args[2]))
                    => (last'.res = Err("InvalidId") /\ task_list' = task_list)
                /\ (/\ Len(last'.args) >= 2
                    /\ PositiveId(last'.args[2])
                    /\ NoTaskHas(task_list, ParseU32(last'.args[2])[1]))
                    => (last'.res = Err("TaskNotFound") /\ task_list' = task_list))]_vars

----------------------------------------------------------------------------
(* C11: the steps of a process invocation *)

\* the calls of main, in the order main makes them
MainSteps == <<"parse_command", "load_todo_list", "run", "save_todo_list">>

\* a process has ended, and its command was applied and did not fail
CommandSucceeded ==
    /\ pc = "idle"
    /\ \E i \in 1..Len(steps) : steps[i] = "run"
    /\ exit # "TaskNotFound"

\* the document at the path is the serialization of the in-memory list
PersistedIsMemory == file.kind = "document" /\ from_str(file.doc) = <<task_list>>

\* C11 as stated: every process invocation whose command succeeded has made
\* the calls load, run, save in this order, once each, and afterwards the
\* persisted document equals the in-memory list as the command left it
C11_LoadApplySave ==
    CommandSucceeded => (steps = MainSteps /\ PersistedIsMemory)

\* C11 for invocations that end with Ok(()): while a process runs its calls
\* are a prefix of parse, load, run, save; a process whose command succeeded
\* has made all four, once each and in this order; and when its save
\* succeeded too, the persisted document equals the in-memory list as the
\* command left it
C11_LoadApplySaveWhenSaved ==
    /\ Len(steps) <= Len(MainSteps)
    /\ steps = SubSeq(MainSteps, 1, Len(steps))
    /\ CommandSucceeded => steps = MainSteps
    /\ (pc = "idle" /\ exit = "ok") => (steps = MainSteps /\ PersistedIsMemory)

\* a process that loaded a stored task, added a second one and saved the list
C11_Witness ==
    /\ pc = "idle"
    /\ exit = "ok"
    /\ cmd.kind = "Add"
    /\ steps = MainSteps
    /\ Len(task_list.tasks) = 2
    /\ PersistedIsMemory

----------------------------------------------------------------------------
(* C12: errors end the invocation *)

\* the errors of parse_command and of execute_command
ParseErrors == {"UnknownCommand", "MissingArgument", "InvalidId", "PriorityError"}
CommandErrors == ParseErrors \cup {"TaskNotFound"}

\* C12: when parse_command or execute_command fails the process ends there:
\* after a parse error parse_command is the only call made, after
\* TaskNotFound the calls are parse_command, load_todo_list, run, each once,
\* and save_todo_list is not called; no step other than the save of a process
\* changes the file, so the persisted document is the same after the
\* invocation as before it
C12_ErrorsAreTerminal ==
    /\ [](exit \in CommandErrors =>
            /\ pc = "idle"
            /\ exit \in ParseErrors => steps = <<"parse_command">>
            /\ exit = "TaskNotFound" => steps = SubSeq(MainSteps, 1, 3))
    /\ [][pc # "save" => file' = file]_vars

\* a process that found a stored task, failed with TaskNotFound and ended,
\* and a process that failed in parse_command, with the document still there
C12_Witness ==
    /\ pc = "idle"
    /\ file.kind = "document"
    /\ Len(load_todo_list(file).tasks) = 1
    /\ \/ exit = "TaskNotFound" /\ steps = SubSeq(MainSteps, 1, 3)
       \/ exit = "PriorityError" /\ steps = <<"parse_command">>

----------------------------------------------------------------------------
(* C13: the scenario *)

\* the list whose only task is task 1, "buy milk", with next_id 2
OnlyBuyMilk(done, priority) ==
    [tasks |-> <<[id |-> U32(1), text |-> BuyMilk, done |-> done, priority |-> priority]>>,
     next_id |-> U32(2)]

\* C13: on a fresh list, dispatching add "buy milk" creates task 1 with
\* priority Low and done false; then set-prio 1 high makes it High; then
\* done 1 makes it done; then list-done prints exactly task 1 and list-todo
\* prints no task; every command of the scenario succeeds
C13_Scenario ==
    /\ scenario \in 0..Len(Scenario)
    /\ scenario >= 1 => last.res.ok
    /\ scenario = 1 => task_list = OnlyBuyMilk(FALSE, Low)
    /\ scenario = 2 => task_list = OnlyBuyMilk(FALSE, High)
    /\ scenario >= 3 => task_list = OnlyBuyMilk(TRUE, High)
    /\ scenario = 4 =>
            /\ Len(out) = 2
            /\ out[1].fmt = "Tasks Done:"
            /\ out[2] = [fmt |-> "{task}", status |-> "[x]", priority |-> "(H)",
                         id |-> <<U32(1)>>, text |-> BuyMilk]
    /\ scenario = 5 => (Len(out) = 1 /\ out[1].fmt = "Tasks Todo:")

\* the five commands of the scenario have been dispatched in order
C13_Witness ==
    /\ scenario = Len(Scenario)
    /\ last.op = "command"
    /\ last.args = <<SubListTodo>>
    /\ adds = 1

----------------------------------------------------------------------------
(* C14: add at every next_id *)

\* b is a + 1 as numbers: b is above a and nothing lies between them
OneGreater(a, b) ==
    /\ U32Lt(a, b)
    /\ \/ b.hi = a.hi /\ b.lo = a.lo + 1
       \/ b.hi = a.hi + 1 /\ b.lo = 0 /\ a.lo = HalfModulus - 1

\* C14: every add call, whatever next_id and text, returns a task, has
\* appended exactly that task with id equal to the previous next_id, done
\* false and priority Low, and leaves next_id exactly 1 greater than before
C14_AddNeverFails ==
    [][last'.op = "add" =>
        /\ last'.res.ok
        /\ last'.res.task = <<[id |-> task_list.next_id, text |-> last'.args[1],
                               done |-> FALSE, priority |-> Low]>>
        /\ task_list'.tasks = Append(task_list.tasks, last'.res.task[1])
        /\ OneGreater(task_list.next_id, task_list'.next_id)]_vars

----------------------------------------------------------------------------
(* C15: priority parsing *)

\* C15: every casing of "low" or "l" parses to Low, every casing of "medium",
\* "med" or "m" to Medium, every casing of "high" or "h" to High, and every
\* other token fails with PriorityError
C15_PriorityParsing ==
    last.op = "Priority::from_str" =>
        LET tok == last.args[1]
        IN  /\ tok \in LowTokens => (last.res.ok /\ cmd.priority = Low)
            /\ tok \in MediumTokens => (last.res.ok /\ cmd.priority = Medium)
            /\ tok \in HighTokens => (last.res.ok /\ cmd.priority = High)
            /\ tok \notin LowTokens \cup MediumTokens \cup HighTokens =>
                    (~last.res.ok /\ last.res.err = "PriorityError")

\* a mixed casing of "medium" has been parsed, to Medium
C15_Witness ==
    /\ last.op = "Priority::from_str"
    /\ last.args = <<<<"m", "E", "d", "I", "u", "M">>>>
    /\ last.res.ok
    /\ cmd.priority = Medium

----------------------------------------------------------------------------
(* C16: what mark_done and set_priority leave alone *)

\* new has the tasks of old in the same order and the same next_id; the
\* tasks with the given id may differ from before in the named field only
\* ("done" or "priority"), all other tasks are as they were
SameBut(old, new, id, field) ==
    /\ Len(new.tasks) = Len(old.tasks)
    /\ new.next_id = old.next_id
    /\ \A i \in 1..Len(old.tasks) :
            LET o == old.tasks[i]
                n == new.tasks[i]
            IN  /\ n.id = o.id
                /\ n.text = o.text
                /\ (o.id # id \/ field # "done") => n.done = o.done
                /\ (o.id # id \/ field # "priority") => n.priority = o.priority

\* C16: a successful mark_done(id) changes nothing but the done flag of the
\* task with that id, a successful set_priority(id, p) nothing but the
\* priority of the task with that id: its id, text and other mutable field,
\* every other task, the order of the tasks and next_id stay as they were
C16_FrameOfMutations ==
    [][/\ (last'.op = "mark_done" /\ last'.res.ok) =>
            SameBut(task_list, task_list', last'.args[1], "done")
       /\ (last'.op = "set_priority" /\ last'.res.ok) =>
            SameBut(task_list, task_list', last'.args[1], "priority")]_vars

\* a successful set_priority on the second of two tasks, which was done
\* and stays done, beside a first task that is not done
C16_Witness ==
    /\ last.op = "set_priority"
    /\ last.res.ok
    /\ last.args = <<U32(2), High>>
    /\ Len(task_list.tasks) = 2
    /\ task_list.tasks[2].done
    /\ task_list.tasks[2].priority = High
    /\ ~task_list.tasks[1].done

----------------------------------------------------------------------------
(* C17: done stays done *)

\* every task that is done in old is in new, at its place, with its id, done
StaysDone(old, new) ==
    \A i \in 1..Len(old.tasks) :
        old.tasks[i].done =>
            /\ i <= Len(new.tasks)
            /\ new.tasks[i].id = old.tasks[i].id
            /\ new.tasks[i].done

\* C17: as long as every save has succeeded, a task that is done is done
\* after every step of every process: parse, load of what the process before
\* saved, any command (add, done, set-prio, the listings, help), save
C17_DoneIsMonotonic == [][~save_failed' => StaysDone(task_list, task_list')]_vars

\* task 1 was marked done by one process, and a later process has loaded the
\* list, added task 2 and saved, with task 1 still done
C17_Witness ==
    /\ pc = "idle"
    /\ exit = "ok"
    /\ ~save_failed
    /\ cmd.kind = "Add"
    /\ Len(task_list.tasks) = 2
    /\ task_list.tasks[1].done
    /\ ~task_list.tasks[2].done

----------------------------------------------------------------------------
(* C18: the read-only commands *)

ReadOnlyCommands == {"List", "ListDone", "ListTodo", "ListByPriority", "Help"}

\* C18: whenever the dispatched arguments parse to List, ListDone, ListTodo,
\* ListByPriority or Help, execute_command returns Ok and the list is as
\* before: the same tasks with the same fields in the same order and the
\* same next_id
C18_ReadOnlyCommands ==
    [][(/\ last'.op = "command"
        /\ Parsed[last'.args].ok
        /\ Parsed[last'.args].cmd.kind \in ReadOnlyCommands)
            => (last'.res.ok /\ task_list' = task_list)]_vars

\* list-prio HIGH has printed a task of a list of two tasks
C18_Witness ==
    /\ last.op = "command"
    /\ last.args = <<SubListPrio, <<"H", "I", "G", "H">>>>
    /\ last.res.ok
    /\ Len(task_list.tasks) = 2
    /\ Len(out) = 2
    /\ out[2].id = <<task_list.tasks[2].id>>

====
